---- MODULE Spec2Model ----
(***************************************************************************)
(* E-MANAFA derived-metric engine and Perfetto service factory.            *)
(*                                                                         *)
(*   services/perfettoServiceFactory.py   create_perfetto_service          *)
(*   services/perfettoServiceEnhanced.py  device_supports_power_rails,     *)
(*                                        PerfettoServiceEnhanced.__init__ *)
(*   parsing/perfettoEnergyCalculator.py  calculate_energy_from_power_rails*)
(*                                        calculate_memory_stats           *)
(*   utils/BatteryDrainCalculator.py      BatteryDrainCalculator           *)
(*                                                                         *)
(* Python floats are modelled as exact rationals <<n, d>> in lowest terms  *)
(* with d > 0; rounding of float64 arithmetic is not modelled.             *)
(***************************************************************************)
EXTENDS Integers, Sequences, FiniteSets, TLC

VARIABLES
    \* ---- create_perfetto_service ----
    has_perfetto,       \* what device_has_perfetto() answers on this device
    call,               \* arguments of the last create_perfetto_service call
    service,            \* the object the last call returned (NoService if none)
    raised,             \* the exception the last call raised ("none" if none)
    probes,             \* answers device_supports_power_rails() gave in that call
    device_calls,       \* device queries that call issued, in order
    \* ---- perfettoEnergyCalculator ----
    trace_status,       \* "missing" | "unloadable" | "ok"
    power_tracks,       \* counter_track rows named power.*: <<[name, values]>>
    mem_tracks,         \* allow-listed memory counter tracks: <<[name, values]>>
    power_rails_energy, \* result of calculate_energy_from_power_rails
    memory_stats,       \* result of calculate_memory_stats
    sorted_rails,       \* the "Top Power Consumers" the energy calculation logged
    \* ---- BatteryDrainCalculator ----
    properties,         \* self.properties
    queries,            \* number of "adb shell dumpsys battery" commands issued
    last_op,            \* the method that returned last
    ret,                \* what it returned
    fetched,            \* whether that call issued the device battery query
    \* ---- threads sharing the BatteryDrainCalculator ----
    pc,                 \* per thread: its position in calculate_battery_drain
    local,              \* per thread: its argument, local variables and result
    \* ---- main.py: one enhanced-mode session ----
    profile_mode,       \* args.profile_mode
    memory_used,        \* the "Memory Used" line display_new_profiler_results printed
    shown_rails,        \* the "Top Power Rail Consumers" it printed
    results,            \* the results dict main() assembled
    exported            \* what main() did with the export file

vars == <<has_perfetto, call, service, raised, probes, device_calls,
          trace_status, power_tracks, mem_tracks, power_rails_energy, memory_stats,
          sorted_rails,
          properties, queries, last_op, ret, fetched,
          pc, local,
          profile_mode, memory_used, shown_rails, results, exported>>

factoryVars == <<has_perfetto, call, service, raised, probes, device_calls>>
traceVars   == <<trace_status, power_tracks, mem_tracks, power_rails_energy, memory_stats,
                 sorted_rails>>
batteryVars == <<properties, queries, last_op, ret, fetched>>
threadVars  == <<pc, local>>
sessionVars == <<profile_mode, memory_used, shown_rails, results, exported>>

(***************************************************************************)
(* Bounds                                                                  *)
(***************************************************************************)
MaxSamples == 3     \* longest counter series in a trace
MaxQueries == 2     \* cap on the counted device battery queries
NumThreads == 2     \* threads sharing one BatteryDrainCalculator
MaxRails   == 6     \* power rails of the traces whose rails are ranked

(***************************************************************************)
(* Python values                                                           *)
(***************************************************************************)
\* Python's None, as a record so that it compares with every other result.
None == [type |-> "None"]

IsNone(x) == x = None

\* An attribute that has not been assigned yet.
Unset == [type |-> "unset"]

(***************************************************************************)
(* Exact rational arithmetic standing in for float64                       *)
(***************************************************************************)
Abs(x) == IF x < 0 THEN -x ELSE x

RECURSIVE GCD(_, _)
GCD(a, b) == IF b = 0 THEN a ELSE GCD(b, a % b)

\* n/d in lowest terms with a positive denominator (d # 0).
Rat(n, d) ==
    LET g == GCD(Abs(n), Abs(d))
        s == IF d < 0 THEN -1 ELSE 1
    IN  <<(s * n) \div g, (s * d) \div g>>

RatInt(n) == <<n, 1>>

\* Least common denominator of two rationals in lowest terms.
LCD(x, y) == (x[2] \div GCD(x[2], y[2])) * y[2]

\* The numerator of x over the denominator l (a multiple of x[2]).
Over(x, l) == x[1] * (l \div x[2])

RatAdd(x, y) == LET l == LCD(x, y) IN Rat(Over(x, l) + Over(y, l), l)
RatSub(x, y) == LET l == LCD(x, y) IN Rat(Over(x, l) - Over(y, l), l)
RatMul(x, y) ==
    LET a == Rat(x[1], y[2])
        b == Rat(y[1], x[2])
    IN  Rat(a[1] * b[1], a[2] * b[2])
RatDiv(x, y) == RatMul(x, Rat(y[2], y[1]))
RatLeq(x, y) == LET l == LCD(x, y) IN Over(x, l) <= Over(y, l)
RatLt(x, y)  == LET l == LCD(x, y) IN Over(x, l) < Over(y, l)
RatIsZero(x) == x[1] = 0

(***************************************************************************)
(* Python dicts: insertion-ordered sequences of [key, value] items         *)
(***************************************************************************)
DictKeys(d) == {d[i].key : i \in 1..Len(d)}

DictHas(d, k) == k \in DictKeys(d)

DictGet(d, k) == d[CHOOSE i \in 1..Len(d) : d[i].key = k].value

\* d[k] = v: overwrite in place when the key exists, else append.
DictSet(d, k, v) ==
    IF DictHas(d, k)
    THEN [i \in 1..Len(d) |-> IF d[i].key = k THEN [key |-> k, value |-> v] ELSE d[i]]
    ELSE Append(d, [key |-> k, value |-> v])

(***************************************************************************)
(* services/perfettoServiceEnhanced.py                                     *)
(***************************************************************************)
\* Exit codes of the shell pipeline "perfetto --query-raw | strings | grep -q".
ExitCodes == {0, 1}

\* device_supports_power_rails(): True exactly when grep -q exits with 0.
device_supports_power_rails(res) == res = 0

NoService == [kind |-> "none"]

\* PerfettoService(boot_time, output_res_folder): the legacy service.
PerfettoService(boot_time, output_res_folder) ==
    [kind |-> "PerfettoService",
     boot_time |-> boot_time,
     output_res_folder |-> output_res_folder]

\* PerfettoServiceEnhanced.__init__: picks the config file from the two
\* flags and raises ValueError when neither is set.
PerfettoServiceEnhanced(boot_time, output_res_folder, enable_energy, enable_memory) ==
    LET cfg_file ==
            IF enable_energy /\ enable_memory THEN "perfetto_config_both.pbtxt"
            ELSE IF enable_energy THEN "perfetto_config_power_rails.pbtxt"
            ELSE IF enable_memory THEN "perfetto_config_memory_only.pbtxt"
            ELSE "unset"
    IN  IF cfg_file = "unset"
        THEN [service |-> NoService, raised |-> "ValueError"]
        ELSE [service |-> [kind |-> "PerfettoServiceEnhanced",
                           boot_time |-> boot_time,
                           output_res_folder |-> output_res_folder,
                           cfg_file |-> cfg_file,
                           enable_energy |-> enable_energy,
                           enable_memory |-> enable_memory],
              raised |-> "none"]

(***************************************************************************)
(* services/perfettoServiceFactory.py                                      *)
(***************************************************************************)
BootTimes == {0, 1}
OutputFolders == {"perfetto", "out"}

Args == [boot_time : BootTimes, output_res_folder : OutputFolders,
         enable_energy : BOOLEAN, enable_memory : BOOLEAN,
         force_enhanced : BOOLEAN, force_legacy : BOOLEAN]

NoCall == [boot_time |-> 0, output_res_folder |-> "none",
           enable_energy |-> FALSE, enable_memory |-> FALSE,
           force_enhanced |-> FALSE, force_legacy |-> FALSE]

Returned(s, asked) == [service |-> s, raised |-> "none", probes |-> asked]

Constructed(c, asked) == [service |-> c.service, raised |-> c.raised, probes |-> asked]

\* AutoDetect with the memory branch forgotten once energy was requested:
\* energy and memory without rails falls through to the legacy service.
Mut_AutoDetect_DropsMemory(a, r1, r2) ==
    LET p1 == device_supports_power_rails(r1)
    IN  IF a.enable_energy
        THEN IF p1
             THEN Constructed(PerfettoServiceEnhanced(a.boot_time, a.output_res_folder,
                                                      TRUE, a.enable_memory), <<p1>>)
             ELSE Returned(PerfettoService(a.boot_time, a.output_res_folder), <<p1>>)
        ELSE IF a.enable_memory
        THEN Constructed(PerfettoServiceEnhanced(a.boot_time, a.output_res_folder,
                                                 FALSE, TRUE), <<>>)
        ELSE Returned(PerfettoService(a.boot_time, a.output_res_folder), <<>>)

\* AutoDetect handing the flags to the constructor whenever rails are not
\* needed, so that an empty request raises ValueError instead of defaulting.
Mut_AutoDetect_RejectsEmpty(a, r1, r2) ==
    LET p1 == device_supports_power_rails(r1)
    IN  IF a.enable_energy /\ ~p1 /\ ~a.enable_memory
        THEN Returned(PerfettoService(a.boot_time, a.output_res_folder), <<p1>>)
        ELSE Constructed(PerfettoServiceEnhanced(a.boot_time, a.output_res_folder,
                                                 a.enable_energy /\ p1, a.enable_memory),
                         IF a.enable_energy THEN <<p1>> ELSE <<>>)

\* Lines 55-88: the if/elif chain.  r1 and r2 are the exit codes the probe's
\* shell command gives the first and the second time it is run; `and` is
\* short-circuit, so the probe runs only where the flags before it are true.
AutoDetect(a, r1, r2) ==
    LET p1 == device_supports_power_rails(r1)
        p2 == device_supports_power_rails(r2)
    IN  IF a.enable_energy /\ a.enable_memory
        THEN IF p1
             THEN Constructed(PerfettoServiceEnhanced(a.boot_time, a.output_res_folder,
                                                      TRUE, TRUE), <<p1>>)
             ELSE \* elif enable_energy and device_supports_power_rails()
                  IF p2
                  THEN Constructed(PerfettoServiceEnhanced(a.boot_time, a.output_res_folder,
                                                           TRUE, FALSE), <<p1, p2>>)
                  ELSE \* elif enable_memory (true here)
                       Constructed(PerfettoServiceEnhanced(a.boot_time, a.output_res_folder,
                                                           FALSE, TRUE), <<p1, p2>>)
        ELSE IF a.enable_energy
        THEN IF p1
             THEN Constructed(PerfettoServiceEnhanced(a.boot_time, a.output_res_folder,
                                                      TRUE, FALSE), <<p1>>)
             ELSE Returned(PerfettoService(a.boot_time, a.output_res_folder), <<p1>>)
        ELSE IF a.enable_memory
        THEN Constructed(PerfettoServiceEnhanced(a.boot_time, a.output_res_folder,
                                                 FALSE, TRUE), <<>>)
        ELSE Returned(PerfettoService(a.boot_time, a.output_res_folder), <<>>)

\* Lines 45-53: force_enhanced passes the flags straight to the constructor.
ForcedEnhanced(a) ==
    Constructed(PerfettoServiceEnhanced(a.boot_time, a.output_res_folder,
                                        a.enable_energy, a.enable_memory), <<>>)

\* create_perfetto_service testing force_enhanced before force_legacy.
Mut_create_ForceEnhancedFirst(a, hp, r1, r2) ==
    IF ~hp
    THEN [service |-> NoService, raised |-> "Exception", probes |-> <<>>]
    ELSE IF a.force_enhanced
    THEN Constructed(PerfettoServiceEnhanced(a.boot_time, a.output_res_folder,
                                             a.enable_energy, a.enable_memory), <<>>)
    ELSE IF a.force_legacy
    THEN Returned(PerfettoService(a.boot_time, a.output_res_folder), <<>>)
    ELSE AutoDetect(a, r1, r2)

\* create_perfetto_service whose force_enhanced branch still asks the probe
\* and drops the energy request on devices without rails.
Mut_create_ForcedProbes(a, hp, r1, r2) ==
    LET p1 == device_supports_power_rails(r1)
    IN  IF ~hp
        THEN [service |-> NoService, raised |-> "Exception", probes |-> <<>>]
        ELSE IF a.force_legacy
        THEN Returned(PerfettoService(a.boot_time, a.output_res_folder), <<>>)
        ELSE IF a.force_enhanced
        THEN Constructed(PerfettoServiceEnhanced(a.boot_time, a.output_res_folder,
                                                 a.enable_energy /\ p1, a.enable_memory),
                         <<p1>>)
        ELSE AutoDetect(a, r1, r2)

\* The whole function: availability check, forced modes, auto-detection.
create_perfetto_service_outcome(a, hp, r1, r2) ==
    IF ~hp
    THEN [service |-> NoService, raised |-> "Exception", probes |-> <<>>]
    ELSE IF a.force_legacy
    THEN Returned(PerfettoService(a.boot_time, a.output_res_folder), <<>>)
    ELSE IF a.force_enhanced
    THEN ForcedEnhanced(a)
    ELSE AutoDetect(a, r1, r2)

\* device_has_perfetto() (services/perfettoService.py) asks the device
\* whether Perfetto is installed: one device query per call.
DeviceHasPerfettoCalls == <<"device_has_perfetto">>

\* The device queries of one call: line 32 always runs device_has_perfetto()
\* first; every device_supports_power_rails() runs one adb shell command.
DeviceCalls(out) ==
    DeviceHasPerfettoCalls
    \o [i \in 1..Len(out.probes) |-> "device_supports_power_rails"]

create_perfetto_service ==
    \E a \in Args, r1 \in ExitCodes, r2 \in ExitCodes :
        LET out == create_perfetto_service_outcome(a, has_perfetto, r1, r2)
        IN  /\ call' = a
            /\ service' = out.service
            /\ raised' = out.raised
            /\ probes' = out.probes
            /\ device_calls' = DeviceCalls(out)
            /\ UNCHANGED <<has_perfetto, traceVars, batteryVars, threadVars, sessionVars>>

(***************************************************************************)
(* parsing/perfettoEnergyCalculator.py: calculate_energy_from_power_rails  *)
(***************************************************************************)
\* 1 uWs = 1e-6 J
MicroToJoule == Rat(1, 1000000)

\* The loop taking the second sample instead of the last one.
RECURSIVE Mut_RailLoop_SecondSample(_, _, _, _)
Mut_RailLoop_SecondSample(rails, i, energy_by_rail, total_energy) ==
    IF i > Len(rails)
    THEN [total |-> total_energy, by_rail |-> energy_by_rail]
    ELSE LET values == rails[i].values
         IN  IF Len(values) >= 2
             THEN LET energy_uws == values[2] - values[1]
                      energy_joules == RatMul(RatInt(energy_uws), MicroToJoule)
                  IN  Mut_RailLoop_SecondSample(rails, i + 1,
                               DictSet(energy_by_rail, rails[i].name, energy_joules),
                               RatAdd(total_energy, energy_joules))
             ELSE Mut_RailLoop_SecondSample(rails, i + 1, energy_by_rail, total_energy)

\* The loop assigning the total (=) where the code accumulates it (+=).
RECURSIVE Mut_RailLoop_TotalAssigned(_, _, _, _)
Mut_RailLoop_TotalAssigned(rails, i, energy_by_rail, total_energy) ==
    IF i > Len(rails)
    THEN [total |-> total_energy, by_rail |-> energy_by_rail]
    ELSE LET values == rails[i].values
         IN  IF Len(values) >= 2
             THEN LET energy_uws == values[Len(values)] - values[1]
                      energy_joules == RatMul(RatInt(energy_uws), MicroToJoule)
                  IN  Mut_RailLoop_TotalAssigned(rails, i + 1,
                               DictSet(energy_by_rail, rails[i].name, energy_joules),
                               energy_joules)
             ELSE Mut_RailLoop_TotalAssigned(rails, i + 1, energy_by_rail, total_energy)

\* The loop clamping a decreasing counter's energy to 0.
RECURSIVE Mut_RailLoop_Clamped(_, _, _, _)
Mut_RailLoop_Clamped(rails, i, energy_by_rail, total_energy) ==
    IF i > Len(rails)
    THEN [total |-> total_energy, by_rail |-> energy_by_rail]
    ELSE LET values == rails[i].values
         IN  IF Len(values) >= 2
             THEN LET diff == values[Len(values)] - values[1]
                      energy_uws == IF diff < 0 THEN 0 ELSE diff
                      energy_joules == RatMul(RatInt(energy_uws), MicroToJoule)
                  IN  Mut_RailLoop_Clamped(rails, i + 1,
                               DictSet(energy_by_rail, rails[i].name, energy_joules),
                               RatAdd(total_energy, energy_joules))
             ELSE Mut_RailLoop_Clamped(rails, i + 1, energy_by_rail, total_energy)

\* Lines 71-95, iterations i..Len(rails) of the loop over the rail names,
\* with the accumulators energy_by_rail and total_energy.
RECURSIVE RailLoop(_, _, _, _)
RailLoop(rails, i, energy_by_rail, total_energy) ==
    IF i > Len(rails)
    THEN [total |-> total_energy, by_rail |-> energy_by_rail]
    ELSE LET values == rails[i].values
         IN  IF Len(values) >= 2
             THEN LET energy_uws == values[Len(values)] - values[1]
                      energy_joules == RatMul(RatInt(energy_uws), MicroToJoule)
                  IN  RailLoop(rails, i + 1,
                               DictSet(energy_by_rail, rails[i].name, energy_joules),
                               RatAdd(total_energy, energy_joules))
             ELSE RailLoop(rails, i + 1, energy_by_rail, total_energy)

\* The function without its "if not rails" early return.
Mut_EnergyFromPowerRails_NoEarlyReturn(status, rails) ==
    IF status # "ok"
    THEN None
    ELSE LET r == RailLoop(rails, 1, <<>>, RatInt(0))
         IN  [type |-> "energy", total |-> r.total, by_rail |-> r.by_rail]

\* The value the function returns for a trace in the given state.
EnergyFromPowerRails(status, rails) ==
    IF status # "ok"
    THEN None                      \* file missing, or TraceProcessor raised
    ELSE IF Len(rails) = 0
    THEN None                      \* "No power rails found in trace"
    ELSE LET r == RailLoop(rails, 1, <<>>, RatInt(0))
         IN  [type |-> "energy", total |-> r.total, by_rail |-> r.by_rail]

\* ---- the top consumers: sorted(items, key=energy, reverse=True)[:5] ----
\* K of the ranking.
TopK == 5

\* list.sort is stable, also with reverse=True: an item goes behind every
\* item whose energy is not smaller.  Here it goes in front of its equals.
RECURSIVE Mut_InsertByEnergy_BeforeEquals(_, _)
Mut_InsertByEnergy_BeforeEquals(ranked, item) ==
    IF ranked = <<>>
    THEN <<item>>
    ELSE IF RatLeq(ranked[1].value, item.value)
    THEN <<item>> \o ranked
    ELSE <<ranked[1]>> \o Mut_InsertByEnergy_BeforeEquals(Tail(ranked), item)

\* `item` put into the non-increasing list `ranked`, behind its equals.
RECURSIVE InsertByEnergy(_, _)
InsertByEnergy(ranked, item) ==
    IF ranked = <<>>
    THEN <<item>>
    ELSE IF RatLt(ranked[1].value, item.value)
    THEN <<item>> \o ranked
    ELSE <<ranked[1]>> \o InsertByEnergy(Tail(ranked), item)

\* sorted(by_rail.items(), key=lambda x: x[1], reverse=True), items i.. of
\* the dict still to be placed.
RECURSIVE SortedByEnergy(_, _, _)
SortedByEnergy(by_rail, i, ranked) ==
    IF i > Len(by_rail)
    THEN ranked
    ELSE SortedByEnergy(by_rail, i + 1, InsertByEnergy(ranked, by_rail[i]))

\* sorted(...)[:5]
TopConsumers(by_rail) ==
    LET ranked == SortedByEnergy(by_rail, 1, <<>>)
    IN  SubSeq(ranked, 1, IF Len(ranked) < TopK THEN Len(ranked) ELSE TopK)

\* Lines 104-108 of calculate_energy_from_power_rails: the ranking is logged
\* once a report was built; a None return logs none.
LoggedTopConsumers(result, logged) ==
    IF IsNone(result)
    THEN logged
    ELSE [type |-> "ranking", rails |-> TopConsumers(result.by_rail)]

calculate_energy_from_power_rails ==
    /\ power_rails_energy' = EnergyFromPowerRails(trace_status, power_tracks)
    /\ sorted_rails' = LoggedTopConsumers(EnergyFromPowerRails(trace_status, power_tracks),
                                         sorted_rails)
    /\ UNCHANGED <<factoryVars, trace_status, power_tracks, mem_tracks, memory_stats,
                   batteryVars, threadVars, sessionVars>>

(***************************************************************************)
(* parsing/perfettoEnergyCalculator.py: calculate_memory_stats             *)
(***************************************************************************)
BytesPerMB == RatInt(1024 * 1024)

\* The rows of the counter/counter_track join, ORDER BY t.name, c.ts.
RECURSIVE QueryRows(_, _)
QueryRows(tracks, i) ==
    IF i > Len(tracks)
    THEN <<>>
    ELSE [j \in 1..Len(tracks[i].values) |->
             [counter_name |-> tracks[i].name, value_bytes |-> tracks[i].values[j]]]
         \o QueryRows(tracks, i + 1)

\* Lines 175-180: group the rows by counter name.
RECURSIVE GroupRows(_, _, _)
GroupRows(rows, i, counters_data) ==
    IF i > Len(rows)
    THEN counters_data
    ELSE LET name == rows[i].counter_name
             sofar == IF DictHas(counters_data, name)
                      THEN DictGet(counters_data, name) ELSE <<>>
         IN  GroupRows(rows, i + 1,
                       DictSet(counters_data, name, Append(sofar, rows[i].value_bytes)))

RECURSIVE SeqSum(_)
SeqSum(s) == IF s = <<>> THEN 0 ELSE s[1] + SeqSum(Tail(s))

SeqMin(s) == CHOOSE x \in {s[i] : i \in 1..Len(s)} : \A j \in 1..Len(s) : x <= s[j]

SeqMax(s) == CHOOSE x \in {s[i] : i \in 1..Len(s)} : \A j \in 1..Len(s) : x >= s[j]

\* The statistics with the average taken by integer division (//).
Mut_CounterStats_FloorAvg(values) ==
    LET min_bytes == SeqMin(values)
        max_bytes == SeqMax(values)
        avg_bytes == RatInt(SeqSum(values) \div Len(values))
    IN  [min_mb |-> RatDiv(RatInt(min_bytes), BytesPerMB),
         max_mb |-> RatDiv(RatInt(max_bytes), BytesPerMB),
         avg_mb |-> RatDiv(avg_bytes, BytesPerMB),
         samples |-> Len(values)]

\* Lines 193-202: the statistics of one non-empty list of values.
CounterStats(values) ==
    LET min_bytes == SeqMin(values)
        max_bytes == SeqMax(values)
        avg_bytes == Rat(SeqSum(values), Len(values))
    IN  [min_mb |-> RatDiv(RatInt(min_bytes), BytesPerMB),
         max_mb |-> RatDiv(RatInt(max_bytes), BytesPerMB),
         avg_mb |-> RatDiv(avg_bytes, BytesPerMB),
         samples |-> Len(values)]

\* Lines 191-202: the loop over counters_data.items().
RECURSIVE StatsLoop(_, _, _)
StatsLoop(counters_data, i, stats) ==
    IF i > Len(counters_data)
    THEN stats
    ELSE IF Len(counters_data[i].value) > 0
    THEN StatsLoop(counters_data, i + 1,
                   DictSet(stats, counters_data[i].key,
                           CounterStats(counters_data[i].value)))
    ELSE StatsLoop(counters_data, i + 1, stats)

MemoryStats(status, tracks) ==
    IF status # "ok"
    THEN None
    ELSE LET counters_data == GroupRows(QueryRows(tracks, 1), 1, <<>>)
         IN  IF Len(counters_data) = 0
             THEN None             \* "No system memory data found in trace"
             ELSE [type |-> "memory", counters |-> StatsLoop(counters_data, 1, <<>>)]

calculate_memory_stats ==
    /\ memory_stats' = MemoryStats(trace_status, mem_tracks)
    /\ UNCHANGED <<factoryVars, trace_status, power_tracks, mem_tracks, power_rails_energy,
                   sorted_rails, batteryVars, threadVars, sessionVars>>

\* ---- display_new_profiler_results: the memory section (main.py) ----
\* --profile-mode of an enhanced session.
ProfileModes == {"energy", "memory", "both"}

\* What the memory section prints.
NotShown     == [shown |-> "nothing"]
NoMemoryData == [shown |-> "No memory data available"]
StatsOnly    == [shown |-> "statistics"]

\* Lines 122-132 with each used bound taken from the same-named bound of
\* MemAvailable.
Mut_MemoryUsed_StraightPairing(mem) ==
    IF DictHas(mem, "MemTotal") /\ DictHas(mem, "MemAvailable")
    THEN LET total == DictGet(mem, "MemTotal").avg_mb
             avail == DictGet(mem, "MemAvailable")
         IN  [shown    |-> "Memory Used",
              used_min |-> RatSub(total, avail.min_mb),
              used_avg |-> RatSub(total, avail.avg_mb),
              used_max |-> RatSub(total, avail.max_mb)]
    ELSE StatsOnly

\* Lines 122-132: Memory Used (Total - Available).
MemoryUsed(mem) ==
    IF DictHas(mem, "MemTotal") /\ DictHas(mem, "MemAvailable")
    THEN LET total == DictGet(mem, "MemTotal").avg_mb
             avail == DictGet(mem, "MemAvailable")
         IN  [shown    |-> "Memory Used",
              used_min |-> RatSub(total, avail.max_mb),
              used_avg |-> RatSub(total, avail.avg_mb),
              used_max |-> RatSub(total, avail.min_mb)]
    ELSE StatsOnly

\* Lines 112-137: hasattr(emanafa, 'memory_stats') and emanafa.memory_stats
\* is false for a missing attribute and for None (a stats dict is never
\* empty).
DisplayedMemory(mode, stats) ==
    IF mode \notin {"memory", "both"}
    THEN NotShown
    ELSE IF stats # Unset /\ ~IsNone(stats) /\ Len(stats.counters) > 0
         THEN MemoryUsed(stats.counters)
         ELSE NoMemoryData

\* What the energy section prints besides the total.
NoEnergyData == [shown |-> "No energy data available"]
TotalOnly    == [shown |-> "total"]

\* Lines 96-110: hasattr(emanafa, 'power_rails_energy') and
\* emanafa.power_rails_energy is false for a missing attribute and for
\* None; "if rails" is false for an empty by_rail.
DisplayedRails(mode, energy) ==
    IF mode \notin {"energy", "both"}
    THEN NotShown
    ELSE IF energy # Unset /\ ~IsNone(energy)
         THEN IF Len(energy.by_rail) > 0
              THEN [shown |-> "Top Power Rail Consumers",
                    rails |-> TopConsumers(energy.by_rail)]
              ELSE TotalOnly
         ELSE NoEnergyData

\* display_new_profiler_results(emanafa, profile_mode): it only prints;
\* shown_rails and memory_used keep what its two sections printed.
display_new_profiler_results ==
    \E mode \in ProfileModes :
        /\ profile_mode' = mode
        /\ shown_rails' = DisplayedRails(mode, power_rails_energy)
        /\ memory_used' = DisplayedMemory(mode, memory_stats)
        /\ UNCHANGED <<factoryVars, traceVars, batteryVars, threadVars,
                       results, exported>>

(***************************************************************************)
(* utils/BatteryDrainCalculator.py                                         *)
(***************************************************************************)
\* The text "adb shell dumpsys battery" prints, as its lines that one of the
\* patterns matches: [field, value], value being the digits after "field: ".
Line(field, value) == [field |-> field, value |-> value]

\* re.findall(pattern, output): the captured numbers, in order of appearance.
RECURSIVE FindAll(_, _)
FindAll(field, output) ==
    IF output = <<>>
    THEN <<>>
    ELSE (IF output[1].field = field THEN <<output[1].value>> ELSE <<>>)
         \o FindAll(field, Tail(output))

\* The patterns dict, in its iteration order: key -> the field it matches.
Patterns == << [key |-> "capacity_mah",  field |-> "harge counter"],
               [key |-> "voltage_mv",    field |-> "voltage"],
               [key |-> "temperature_c", field |-> "temperature"],
               [key |-> "health_code",   field |-> "health"],
               [key |-> "level",         field |-> "level"] >>

\* Lines 45-48: properties[key] = int(match[-1]) for every pattern that matches.
RECURSIVE ParseLoop(_, _, _)
ParseLoop(output, i, props) ==
    IF i > Len(Patterns)
    THEN props
    ELSE LET match == FindAll(Patterns[i].field, output)
         IN  IF Len(match) > 0
             THEN ParseLoop(output, i + 1, (Patterns[i].key :> match[Len(match)]) @@ props)
             ELSE ParseLoop(output, i + 1, props)

EmptyDict == [k \in {} |-> 0]

\* The capacity step dividing the alternate field by 1000 as well.
Mut_ParseCapacity_ScalesAlternate(output, props) ==
    IF "capacity_mah" \in DOMAIN props
    THEN [props EXCEPT !["capacity_mah"] = Rat(props["capacity_mah"], 1000)]
    ELSE LET match == FindAll("battery capacity", output)
         IN  IF Len(match) > 0
             THEN ("capacity_mah" :> Rat(match[1], 1000)) @@ props
             ELSE props

\* Lines 50-58: charge counter (uAh) / 1000, else the alternate field as is.
\* capacity_mah is kept as a rational in both cases.
ParseCapacity(output, props) ==
    IF "capacity_mah" \in DOMAIN props
    THEN [props EXCEPT !["capacity_mah"] = Rat(props["capacity_mah"], 1000)]
    ELSE LET match == FindAll("battery capacity", output)
         IN  IF Len(match) > 0
             THEN ("capacity_mah" :> RatInt(match[1])) @@ props
             ELSE props

\* The lookup with the overheat and dead multipliers swapped and the
\* default taken as full health.
Mut_HealthMultiplier_Swapped(health_code) ==
    IF health_code = 2 THEN Rat(10, 10)
    ELSE IF health_code = 3 THEN Rat(5, 10)
    ELSE IF health_code = 4 THEN Rat(8, 10)
    ELSE Rat(10, 10)

\* Lines 67-76: health code -> multiplier.
HealthMultiplier(health_code) ==
    IF health_code = 2 THEN Rat(10, 10)
    ELSE IF health_code = 3 THEN Rat(8, 10)
    ELSE IF health_code = 4 THEN Rat(5, 10)
    ELSE Rat(9, 10)

\* Lines 78-80: temperature in tenths of a degree -> Celsius.
ConvertTemperature(props) ==
    IF "temperature_c" \in DOMAIN props
    THEN [props EXCEPT !["temperature_c"] = Rat(props["temperature_c"], 10)]
    ELSE props

RequiredKeys == {"voltage_mv", "capacity_mah", "health_code"}

\* get_battery_properties() treating the health code as optional (a missing
\* code counts as "other").
Mut_BatteryProperties_HealthOptional(res, output) ==
    IF res # 0
    THEN None
    ELSE LET parsed == ParseCapacity(output, ParseLoop(output, 1, EmptyDict))
         IN  IF ~({"voltage_mv", "capacity_mah"} \subseteq DOMAIN parsed)
             THEN None
             ELSE ConvertTemperature(
                      ("health_multiplier" :>
                          IF "health_code" \in DOMAIN parsed
                          THEN HealthMultiplier(parsed["health_code"])
                          ELSE Rat(9, 10))
                      @@ parsed)

\* get_battery_properties() for the shell result (res, output): the dict it
\* returns and stores in self.properties, or None (self.properties untouched).
BatteryProperties(res, output) ==
    IF res # 0
    THEN None
    ELSE LET parsed == ParseCapacity(output, ParseLoop(output, 1, EmptyDict))
         IN  IF ~(RequiredKeys \subseteq DOMAIN parsed)
             THEN None
             ELSE ConvertTemperature(
                      ("health_multiplier" :> HealthMultiplier(parsed["health_code"]))
                      @@ parsed)

\* The report without the zero test: an empty battery reports 0 % drain.
Mut_DrainReport_ZeroPercent(props, energy_joules) ==
    LET current_voltage_v == Rat(props["voltage_mv"], 1000)
        effective_capacity_mah == RatMul(props["capacity_mah"], props["health_multiplier"])
        total_battery_energy_wh ==
            RatDiv(RatMul(effective_capacity_mah, current_voltage_v), RatInt(1000))
        function_energy_wh == RatDiv(energy_joules, RatInt(3600))
    IN  [design_capacity_mah |-> props["capacity_mah"],
         current_voltage_v |-> current_voltage_v,
         health_multiplier |-> props["health_multiplier"],
         effective_capacity_mah |-> effective_capacity_mah,
         total_battery_energy_wh |-> total_battery_energy_wh,
         consumed_energy_joules |-> energy_joules,
         consumed_energy_wh |-> function_energy_wh,
         battery_drain_percentage |->
             IF RatIsZero(total_battery_energy_wh)
             THEN RatInt(0)
             ELSE RatMul(RatDiv(function_energy_wh, total_battery_energy_wh),
                         RatInt(100))]

\* The report taking the total energy from the design capacity, not from
\* the health-adjusted one.
Mut_DrainReport_DesignCapacity(props, energy_joules) ==
    LET current_voltage_v == Rat(props["voltage_mv"], 1000)
        effective_capacity_mah == RatMul(props["capacity_mah"], props["health_multiplier"])
        total_battery_energy_wh ==
            RatDiv(RatMul(props["capacity_mah"], current_voltage_v), RatInt(1000))
        function_energy_wh == RatDiv(energy_joules, RatInt(3600))
    IN  IF RatIsZero(total_battery_energy_wh)
        THEN None
        ELSE [design_capacity_mah |-> props["capacity_mah"],
              current_voltage_v |-> current_voltage_v,
              health_multiplier |-> props["health_multiplier"],
              effective_capacity_mah |-> effective_capacity_mah,
              total_battery_energy_wh |-> total_battery_energy_wh,
              consumed_energy_joules |-> energy_joules,
              consumed_energy_wh |-> function_energy_wh,
              battery_drain_percentage |->
                  RatMul(RatDiv(function_energy_wh, total_battery_energy_wh),
                         RatInt(100))]

\* Lines 101-134 of calculate_battery_drain, self.properties being props.
DrainReport(props, energy_joules) ==
    LET design_capacity_mah == props["capacity_mah"]
        health_multiplier == props["health_multiplier"]
        current_voltage_v == Rat(props["voltage_mv"], 1000)
        effective_capacity_mah == RatMul(design_capacity_mah, health_multiplier)
        total_battery_energy_wh ==
            RatDiv(RatMul(effective_capacity_mah, current_voltage_v), RatInt(1000))
        function_energy_wh == RatDiv(energy_joules, RatInt(3600))
    IN  IF RatIsZero(total_battery_energy_wh)
        THEN None
        ELSE LET percentage_drained ==
                     RatMul(RatDiv(function_energy_wh, total_battery_energy_wh),
                            RatInt(100))
                 result ==
                     [design_capacity_mah |-> design_capacity_mah,
                      current_voltage_v |-> current_voltage_v,
                      health_multiplier |-> health_multiplier,
                      effective_capacity_mah |-> effective_capacity_mah,
                      total_battery_energy_wh |-> total_battery_energy_wh,
                      consumed_energy_joules |-> energy_joules,
                      consumed_energy_wh |-> function_energy_wh,
                      battery_drain_percentage |-> percentage_drained]
                 with_temp ==
                     IF "temperature_c" \in DOMAIN props
                     THEN ("temperature_c" :> props["temperature_c"]) @@ result
                     ELSE result
             IN  IF "level" \in DOMAIN props
                 THEN ("battery_level_percent" :> props["level"]) @@ with_temp
                 ELSE with_temp

\* What the device can print.
ChargeCounterLines == {<<>>, <<Line("harge counter", 0)>>,
                       <<Line("harge counter", 3000000)>>}
AltCapacityLines   == {<<>>, <<Line("battery capacity", 4000)>>}
VoltageLines       == {<<>>, <<Line("voltage", 0)>>, <<Line("voltage", 3800)>>}
TemperatureLines   == {<<>>, <<Line("temperature", 253)>>}
HealthLines        == {<<>>} \cup {<<Line("health", h)>> : h \in {0, 2, 3, 4, 7}}
LevelLines         == {<<>>, <<Line("level", 80)>>}

DumpsysOutputs ==
    {cc \o ac \o v \o t \o h \o l :
        cc \in ChargeCounterLines, ac \in AltCapacityLines, v \in VoltageLines,
        t \in TemperatureLines, h \in HealthLines, l \in LevelLines}

\* Consumed energies handed to calculate_battery_drain, in Joules.
Energies == {RatInt(0), RatInt(18000), Rat(1, 4000), RatInt(-5)}

\* What shell("dumpsys battery") hands back: its exit code and, when it
\* succeeded, the text; the text of a failed command is never read.
ShellResults ==
    UNION {{[res |-> res, output |-> output] :
                output \in IF res = 0 THEN DumpsysOutputs ELSE {<<>>}} :
           res \in ExitCodes}

\* What get_battery_properties makes of each shell result.
FetchResult == [sh \in ShellResults |-> BatteryProperties(sh.res, sh.output)]

\* get_battery_properties storing whatever it returns, None included.
Mut_get_battery_properties_StoresFailure ==
    /\ queries < MaxQueries
    /\ \E sh \in ShellResults :
          LET p == FetchResult[sh]
          IN  /\ properties' = p
              /\ ret' = p
    /\ queries' = queries + 1
    /\ fetched' = TRUE
    /\ last_op' = "get_battery_properties"
    /\ UNCHANGED <<factoryVars, traceVars, threadVars, sessionVars>>

get_battery_properties ==
    /\ queries < MaxQueries
    /\ \E sh \in ShellResults :
          LET p == FetchResult[sh]
          IN  /\ properties' = IF IsNone(p) THEN properties ELSE p
              /\ ret' = p
    /\ queries' = queries + 1
    /\ fetched' = TRUE
    /\ last_op' = "get_battery_properties"
    /\ UNCHANGED <<factoryVars, traceVars, threadVars, sessionVars>>

\* calculate_battery_drain asking the device on every call.
Mut_calculate_battery_drain_AlwaysFetches ==
    \E energy_joules \in Energies :
        /\ queries < MaxQueries
        /\ \E sh \in ShellResults :
              LET p == FetchResult[sh]
              IN  /\ properties' = p
                  /\ ret' = IF IsNone(p) THEN None ELSE DrainReport(p, energy_joules)
        /\ queries' = queries + 1
        /\ fetched' = TRUE
        /\ last_op' = "calculate_battery_drain"
        /\ UNCHANGED <<factoryVars, traceVars, threadVars, sessionVars>>

calculate_battery_drain ==
    \E energy_joules \in Energies :
        \/ \* self.properties is None: fetch first
           /\ IsNone(properties)
           /\ queries < MaxQueries
           /\ \E sh \in ShellResults :
                 LET p == FetchResult[sh]
                 IN  /\ properties' = p
                     /\ ret' = IF IsNone(p) THEN None ELSE DrainReport(p, energy_joules)
           /\ queries' = queries + 1
           /\ fetched' = TRUE
           /\ last_op' = "calculate_battery_drain"
           /\ UNCHANGED <<factoryVars, traceVars, threadVars, sessionVars>>
        \/ \* cached properties
           /\ ~IsNone(properties)
           /\ ret' = DrainReport(properties, energy_joules)
           /\ fetched' = FALSE
           /\ last_op' = "calculate_battery_drain"
           /\ UNCHANGED <<factoryVars, traceVars, properties, queries,
                          threadVars, sessionVars>>

(***************************************************************************)
(* Initial states and specifications                                       *)
(***************************************************************************)
IdleFactory ==
    /\ call = NoCall
    /\ service = NoService
    /\ raised = "none"
    /\ probes = <<>>
    /\ device_calls = <<>>

IdleTrace ==
    /\ power_rails_energy = Unset
    /\ memory_stats = Unset
    /\ sorted_rails = Unset

\* BatteryDrainCalculator.__init__
IdleBattery ==
    /\ properties = None
    /\ queries = 0
    /\ last_op = "__init__"
    /\ ret = None
    /\ fetched = FALSE

\* The threads that share one calculator.
Threads == 1..NumThreads

\* A thread that has not called yet.
NoLocal == [energy_joules |-> RatInt(0), fetch |-> None,
            design_capacity_mah |-> RatInt(0), health_multiplier |-> RatInt(0),
            voltage_mv |-> 0, result |-> None]

IdleThreads ==
    /\ pc = [t \in Threads |-> "idle"]
    /\ local = [t \in Threads |-> NoLocal]

\* main() before the profiling session has produced anything.
IdleSession ==
    /\ profile_mode = "none"
    /\ memory_used = Unset
    /\ shown_rails = Unset
    /\ results = Unset
    /\ exported = "no"

\* Counter series of at most MaxSamples samples over the values V.
Series(V) == UNION {[1..n -> V] : n \in 0..MaxSamples}

\* The tracks of names[i], i \in present, in the order of names.
RECURSIVE Tracks(_, _, _, _)
Tracks(names, present, f, i) ==
    IF i > Len(names)
    THEN <<>>
    ELSE (IF i \in present THEN <<[name |-> names[i], values |-> f[i]]>> ELSE <<>>)
         \o Tracks(names, present, f, i + 1)

\* Every trace content over the given names (sorted, as ORDER BY t.name gives).
TrackSets(names, V) ==
    {Tracks(names, present, f, 1) :
        present \in SUBSET (1..Len(names)), f \in [1..Len(names) -> Series(V)]}

RailNames  == <<"power.rail.A", "power.rail.B">>
RailValues == {5, 100, 350}

MemNames  == <<"MemAvailable", "MemTotal">>
MemValues == {524288, 1048576, 3145728}

TraceStatuses == {"missing", "unloadable", "ok"}

\* ---- the factory on a device ----
InitFactory ==
    /\ has_perfetto \in BOOLEAN
    /\ IdleFactory
    /\ trace_status = "ok" /\ power_tracks = <<>> /\ mem_tracks = <<>>
    /\ IdleTrace
    /\ IdleBattery
    /\ IdleThreads
    /\ IdleSession

NextFactory == create_perfetto_service

SpecFactory == InitFactory /\ [][NextFactory]_vars

\* ---- the energy calculator on a trace file ----
InitEnergy ==
    /\ has_perfetto = TRUE
    /\ IdleFactory
    /\ trace_status \in TraceStatuses
    /\ power_tracks \in TrackSets(RailNames, RailValues)
    /\ mem_tracks = <<>>
    /\ IdleTrace
    /\ IdleBattery
    /\ IdleThreads
    /\ IdleSession

NextEnergy == calculate_energy_from_power_rails

SpecEnergy == InitEnergy /\ [][NextEnergy]_vars

\* ---- the memory aggregator on a trace file ----
InitMemory ==
    /\ has_perfetto = TRUE
    /\ IdleFactory
    /\ trace_status \in TraceStatuses
    /\ power_tracks = <<>>
    /\ mem_tracks \in TrackSets(MemNames, MemValues)
    /\ IdleTrace
    /\ IdleBattery
    /\ IdleThreads
    /\ IdleSession

NextMemory ==
    \/ calculate_memory_stats
    \/ display_new_profiler_results

SpecMemory == InitMemory /\ [][NextMemory]_vars

\* ---- one BatteryDrainCalculator instance ----
InitBattery ==
    /\ has_perfetto = TRUE
    /\ IdleFactory
    /\ trace_status = "ok" /\ power_tracks = <<>> /\ mem_tracks = <<>>
    /\ IdleTrace
    /\ IdleBattery
    /\ IdleThreads
    /\ IdleSession

NextBattery ==
    \/ get_battery_properties
    \/ calculate_battery_drain

SpecBattery == InitBattery /\ [][NextBattery]_vars

\* ---- threads calling calculate_battery_drain on one shared calculator ----
\* The class takes no lock, so a call is a sequence of separate reads and
\* writes of self.properties that other threads' steps interleave with.

\* What the device may answer to the threads' queries: two readings of a
\* healthy battery, or a failed command.
ThreadOutputs ==
    { << Line("harge counter", 3000000), Line("voltage", 3800),
         Line("temperature", 253), Line("health", 2) >>,
      << Line("battery capacity", 4000), Line("voltage", 3800),
         Line("health", 3), Line("level", 80) >> }

ThreadShellResults ==
    {[res |-> 0, output |-> output] : output \in ThreadOutputs}
        \cup {[res |-> 1, output |-> <<>>]}

ThreadEnergies == {RatInt(18000)}

\* An exception leaving calculate_battery_drain.
Exc(name) == [type |-> name]

Goto(t, label) == pc' = [pc EXCEPT ![t] = label]

\* The thread leaves the call with `result` (a report, None or an exception).
Leave(t, result) ==
    /\ Goto(t, "done")
    /\ local' = [local EXCEPT ![t].result = result]

threadFrame == <<factoryVars, traceVars, sessionVars, last_op, ret, fetched>>

\* Line 95: if self.properties is None
drain_test_cache(t) ==
    /\ pc[t] = "idle"
    /\ \E energy_joules \in ThreadEnergies :
          local' = [local EXCEPT ![t].energy_joules = energy_joules]
    /\ Goto(t, IF IsNone(properties) THEN "query" ELSE "recheck")
    /\ UNCHANGED <<threadFrame, properties, queries>>

\* Lines 26-80 of get_battery_properties: the device query and its parsing.
fetch_query(t) ==
    /\ pc[t] = "query"
    /\ \E sh \in ThreadShellResults :
          LET p == BatteryProperties(sh.res, sh.output)
          IN  /\ local' = [local EXCEPT ![t].fetch = p]
              /\ Goto(t, IF IsNone(p) THEN "assign" ELSE "store")
    /\ queries' = queries + 1
    /\ UNCHANGED <<threadFrame, properties>>

\* Line 82 of get_battery_properties: self.properties = properties
fetch_store(t) ==
    /\ pc[t] = "store"
    /\ properties' = local[t].fetch
    /\ Goto(t, "assign")
    /\ UNCHANGED <<threadFrame, queries, local>>

\* Line 96: self.properties = <what get_battery_properties returned>
drain_assign(t) ==
    /\ pc[t] = "assign"
    /\ properties' = local[t].fetch
    /\ Goto(t, "recheck")
    /\ UNCHANGED <<threadFrame, queries, local>>

\* Lines 98-99: if self.properties is None: return None
drain_recheck(t) ==
    /\ pc[t] = "recheck"
    /\ IF IsNone(properties)
       THEN Leave(t, None)
       ELSE Goto(t, "read_capacity") /\ UNCHANGED local
    /\ UNCHANGED <<threadFrame, properties, queries>>

\* Line 102: design_capacity_mah = self.properties['capacity_mah']
drain_read_capacity(t) ==
    /\ pc[t] = "read_capacity"
    /\ IF IsNone(properties)
       THEN Leave(t, Exc("TypeError"))
       ELSE /\ local' = [local EXCEPT ![t].design_capacity_mah = properties["capacity_mah"]]
            /\ Goto(t, "read_health")
    /\ UNCHANGED <<threadFrame, properties, queries>>

\* Line 103: health_multiplier = self.properties['health_multiplier']
drain_read_health(t) ==
    /\ pc[t] = "read_health"
    /\ IF IsNone(properties)
       THEN Leave(t, Exc("TypeError"))
       ELSE /\ local' = [local EXCEPT ![t].health_multiplier = properties["health_multiplier"]]
            /\ Goto(t, "read_voltage")
    /\ UNCHANGED <<threadFrame, properties, queries>>

\* The dict the thread's three reads amount to.
LocalProps(l) ==
    ("capacity_mah" :> l.design_capacity_mah)
        @@ ("health_multiplier" :> l.health_multiplier)
        @@ ("voltage_mv" :> l.voltage_mv)

\* Line 104: current_voltage_v = self.properties['voltage_mv'] / 1000.0, and
\* lines 107-134, which work on the thread's own values only.
drain_read_voltage(t) ==
    /\ pc[t] = "read_voltage"
    /\ IF IsNone(properties)
       THEN Leave(t, Exc("TypeError"))
       ELSE LET l == [local[t] EXCEPT !.voltage_mv = properties["voltage_mv"]]
                result == DrainReport(LocalProps(l), l.energy_joules)
            IN  /\ local' = [local EXCEPT ![t] = [l EXCEPT !.result = result]]
                /\ Goto(t, IF IsNone(result) THEN "done" ELSE "has_temperature")
    /\ UNCHANGED <<threadFrame, properties, queries>>

\* Line 137: if 'temperature_c' in self.properties
drain_has_temperature(t) ==
    /\ pc[t] = "has_temperature"
    /\ IF IsNone(properties)
       THEN Leave(t, Exc("TypeError"))
       ELSE /\ Goto(t, IF "temperature_c" \in DOMAIN properties
                       THEN "read_temperature" ELSE "has_level")
            /\ UNCHANGED local
    /\ UNCHANGED <<threadFrame, properties, queries>>

\* Line 138: result['temperature_c'] = self.properties['temperature_c']
drain_read_temperature(t) ==
    /\ pc[t] = "read_temperature"
    /\ IF IsNone(properties)
       THEN Leave(t, Exc("TypeError"))
       ELSE IF "temperature_c" \notin DOMAIN properties
       THEN Leave(t, Exc("KeyError"))
       ELSE /\ local' = [local EXCEPT ![t].result =
                            ("temperature_c" :> properties["temperature_c"]) @@ @]
            /\ Goto(t, "has_level")
    /\ UNCHANGED <<threadFrame, properties, queries>>

\* Line 141: if 'level' in self.properties
drain_has_level(t) ==
    /\ pc[t] = "has_level"
    /\ IF IsNone(properties)
       THEN Leave(t, Exc("TypeError"))
       ELSE /\ Goto(t, IF "level" \in DOMAIN properties THEN "read_level" ELSE "done")
            /\ UNCHANGED local
    /\ UNCHANGED <<threadFrame, properties, queries>>

\* Lines 142-144: result['battery_level_percent'] = self.properties['level']
\* and return result
drain_read_level(t) ==
    /\ pc[t] = "read_level"
    /\ IF IsNone(properties)
       THEN Leave(t, Exc("TypeError"))
       ELSE IF "level" \notin DOMAIN properties
       THEN Leave(t, Exc("KeyError"))
       ELSE Leave(t, ("battery_level_percent" :> properties["level"]) @@ local[t].result)
    /\ UNCHANGED <<threadFrame, properties, queries>>

InitThreads ==
    /\ has_perfetto = TRUE
    /\ IdleFactory
    /\ trace_status = "ok" /\ power_tracks = <<>> /\ mem_tracks = <<>>
    /\ IdleTrace
    /\ IdleBattery
    /\ IdleThreads
    /\ IdleSession

NextThreads ==
    \E t \in Threads :
        \/ drain_test_cache(t)
        \/ fetch_query(t)
        \/ fetch_store(t)
        \/ drain_assign(t)
        \/ drain_recheck(t)
        \/ drain_read_capacity(t)
        \/ drain_read_health(t)
        \/ drain_read_voltage(t)
        \/ drain_has_temperature(t)
        \/ drain_read_temperature(t)
        \/ drain_has_level(t)
        \/ drain_read_level(t)

SpecThreads == InitThreads /\ [][NextThreads]_vars

\* ---- main(): the report of an enhanced-mode session (main.py 365-405) ----
\* What the device may answer to the session's battery query.
SessionShellResults ==
    { [res |-> 1, output |-> <<>>],
      [res |-> 0, output |-> << Line("harge counter", 0), Line("voltage", 3800),
                                Line("health", 2) >>],
      [res |-> 0, output |-> << Line("harge counter", 3000000), Line("voltage", 3800),
                                Line("temperature", 253), Line("health", 2) >>] }

OutputFormats == {"json", "csv"}

\* Lines 376-392: the results dict; 'app', 'duration_seconds' and
\* 'timestamp' are copied from the arguments and the clock and left out.
Results(mode, energy, memory, battery_drain_info) ==
    LET base == "mode" :> mode
        with_energy ==
            IF mode \in {"energy", "both"} /\ energy # Unset
            THEN ("energy" :> energy) @@ base
            ELSE base
        with_memory ==
            IF mode \in {"memory", "both"} /\ memory # Unset
            THEN ("memory" :> memory) @@ with_energy
            ELSE with_energy
    IN  IF ~IsNone(battery_drain_info)
        THEN ("battery_drain" :> battery_drain_info) @@ with_memory
        ELSE with_memory

\* Lines 394-405 with export_to_json / export_to_csv (lines 32-86): the
\* file is written when results has an 'energy' or 'memory' key (a missing
\* file name is generated); export_to_csv subscripts data['energy'] and
\* tests membership in data['memory'], which raises TypeError on None.
Export(res, output_format) ==
    IF ~("energy" \in DOMAIN res \/ "memory" \in DOMAIN res)
    THEN "no"
    ELSE IF output_format = "json"
    THEN "json"
    ELSE IF \/ "energy" \in DOMAIN res /\ IsNone(res["energy"])
            \/ "memory" \in DOMAIN res /\ IsNone(res["memory"])
    THEN "TypeError"
    ELSE "csv"

\* Lines 368-370 asking for the drain of every non-negative total.
Mut_DrainWanted_NonNegative(mode, energy) ==
    /\ mode \in {"energy", "both"}
    /\ energy # Unset
    /\ ~IsNone(energy)
    /\ RatLeq(RatInt(0), energy.total)

\* Lines 368-370: the battery drain is calculated in energy/both mode when
\* the session has a (truthy) energy report whose total is > 0.
DrainWanted(mode, energy) ==
    /\ mode \in {"energy", "both"}
    /\ energy # Unset
    /\ ~IsNone(energy)
    /\ RatLt(RatInt(0), energy.total)

\* Lines 365-405: battery drain for a positive energy total, the display,
\* the results dict and its export.
main_report ==
    /\ results = Unset
    /\ \E sh \in SessionShellResults, output_format \in OutputFormats :
          LET asks == DrainWanted(profile_mode, power_rails_energy)
              total_energy == IF asks THEN power_rails_energy.total ELSE RatInt(0)
              p == BatteryProperties(sh.res, sh.output)
              battery_drain_info ==
                  IF asks /\ ~IsNone(p) THEN DrainReport(p, total_energy) ELSE None
              res == Results(profile_mode, power_rails_energy, memory_stats,
                             battery_drain_info)
          IN  /\ IF asks
                 THEN /\ properties' = p
                      /\ queries' = queries + 1
                      /\ fetched' = TRUE
                      /\ ret' = battery_drain_info
                      /\ last_op' = "calculate_battery_drain"
                 ELSE UNCHANGED batteryVars
              /\ shown_rails' = DisplayedRails(profile_mode, power_rails_energy)
              /\ memory_used' = DisplayedMemory(profile_mode, memory_stats)
              /\ results' = res
              /\ exported' = Export(res, output_format)
    /\ UNCHANGED <<factoryVars, traceVars, threadVars, profile_mode>>

\* The traces of the sessions: one rail counting whole Joules (in uJ) and
\* one memory counter.
SessionRailNames  == <<"power.rail.A">>
SessionRailValues == {0, 1000000, 2000000}
SessionMemNames   == <<"MemTotal">>
SessionMemValues  == {1048576}

\* The session has stopped and main() has created its calculator (line 340).
InitSession ==
    /\ has_perfetto = TRUE
    /\ IdleFactory
    /\ trace_status \in TraceStatuses
    /\ power_tracks \in TrackSets(SessionRailNames, SessionRailValues)
    /\ mem_tracks \in TrackSets(SessionMemNames, SessionMemValues)
    /\ IdleTrace
    /\ IdleBattery
    /\ IdleThreads
    /\ profile_mode \in ProfileModes
    /\ memory_used = Unset
    /\ shown_rails = Unset
    /\ results = Unset
    /\ exported = "no"

NextSession ==
    \/ results = Unset /\ calculate_energy_from_power_rails
    \/ results = Unset /\ calculate_memory_stats
    \/ main_report

SpecSession == InitSession /\ [][NextSession]_vars

\* ---- the ranking of the rails of one trace ----
\* Rail names in the order the track query returns them (ORDER BY t.name).
RankedRailNames ==
    SubSeq(<<"power.rail.A", "power.rail.B", "power.rail.C", "power.rail.D",
             "power.rail.E", "power.rail.F", "power.rail.G", "power.rail.H">>,
           1, MaxRails)

\* Per rail: one sample (no energy entry), or a window of 1 or 2 J.
RankedSeries == {<<0>>, <<0, 1000000>>, <<0, 2000000>>}

InitRanking ==
    /\ has_perfetto = TRUE
    /\ IdleFactory
    /\ trace_status = "ok"
    /\ power_tracks \in
          {[i \in 1..MaxRails |-> [name |-> RankedRailNames[i], values |-> f[i]]] :
              f \in [1..MaxRails -> RankedSeries]}
    /\ mem_tracks = <<>>
    /\ IdleTrace
    /\ IdleBattery
    /\ IdleThreads
    /\ IdleSession

NextRanking ==
    \/ calculate_energy_from_power_rails
    \/ display_new_profiler_results

SpecRanking == InitRanking /\ [][NextRanking]_vars

(***************************************************************************)
(* Properties of create_perfetto_service (SpecFactory)                     *)
(***************************************************************************)
\* A create_perfetto_service call has returned or raised.
Called == call \in Args

\* The collection strategy a returned service stands for.
Strategy(s) ==
    IF s.kind = "PerfettoService" THEN "Legacy"
    ELSE IF s.kind = "none" THEN "none"
    ELSE IF s.enable_energy /\ s.enable_memory THEN "EnhancedBoth"
    ELSE IF s.enable_energy THEN "EnhancedEnergy"
    ELSE IF s.enable_memory THEN "EnhancedMemory"
    ELSE "invalid"

ConfigFile(s) == IF s.kind = "PerfettoServiceEnhanced" THEN s.cfg_file ELSE "none"

\* The resolution table of the specification, for a probe answering `rails`.
TableStrategy(energy, memory, rails) ==
    IF energy /\ memory /\ rails THEN "EnhancedBoth"
    ELSE IF energy /\ rails THEN "EnhancedEnergy"
    ELSE IF memory THEN "EnhancedMemory"
    ELSE "Legacy"

C3_ForcedEnhancedIgnoresProbe ==
    (Called /\ call.force_enhanced /\ ~call.force_legacy) =>
        /\ probes = <<>>
        /\ \A a \in Args, r1 \in ExitCodes, r2 \in ExitCodes :
              ( /\ a.force_enhanced /\ ~a.force_legacy
                /\ a.enable_energy = call.enable_energy
                /\ a.enable_memory = call.enable_memory ) =>
                 LET out == create_perfetto_service_outcome(a, has_perfetto, r1, r2)
                 IN  /\ Strategy(out.service) = Strategy(service)
                     /\ ConfigFile(out.service) = ConfigFile(service)
                     /\ out.raised = raised
                     /\ out.probes = <<>>

\* C3 witness: a forced enhanced energy-only service was returned.
C3_Witness ==
    /\ Called /\ has_perfetto /\ call.force_enhanced /\ ~call.force_legacy
    /\ call.enable_energy /\ ~call.enable_memory
    /\ Strategy(service) = "EnhancedEnergy"
    /\ ConfigFile(service) = "perfetto_config_power_rails.pbtxt"

NothingRequested ==
    /\ Called /\ has_perfetto
    /\ ~call.enable_energy /\ ~call.enable_memory

\* C4 as stated: with neither energy nor memory requested and no force flag
\* the resolution fails and no service is returned.
C4_Original_EmptyRequestFails ==
    (NothingRequested /\ ~call.force_legacy /\ ~call.force_enhanced) =>
        /\ raised = "ValueError"
        /\ service = NoService

\* C4 amended: with neither energy nor memory requested and no force flag
\* the resolution does not fail: it returns the legacy service without
\* asking the probe.  The "must enable either energy or memory" ValueError
\* is raised exactly when force_enhanced (without force_legacy) is set with
\* neither requested.
C4_EmptyRequestYieldsLegacy ==
    /\ (NothingRequested /\ ~call.force_legacy /\ ~call.force_enhanced) =>
          /\ raised = "none"
          /\ service = PerfettoService(call.boot_time, call.output_res_folder)
          /\ probes = <<>>
    /\ (Called /\ has_perfetto) =>
          ( raised = "ValueError" <=>
               /\ call.force_enhanced /\ ~call.force_legacy
               /\ ~call.enable_energy /\ ~call.enable_memory )

\* C4 witness: an unforced call requesting nothing got the legacy service.
C4_Witness ==
    /\ NothingRequested /\ ~call.force_legacy /\ ~call.force_enhanced
    /\ Strategy(service) = "Legacy"
    /\ raised = "none"

(***************************************************************************)
(* Properties of calculate_energy_from_power_rails (SpecEnergy)            *)
(***************************************************************************)
\* The calculation has run on a trace that loaded.
EnergyRan == power_rails_energy # Unset /\ trace_status = "ok"

\* It returned a report (not None).
EnergyReported == EnergyRan /\ power_rails_energy.type = "energy"

\* (last - first) x 1e-6 of a series with at least two samples.
WindowJoules(values) == Rat(values[Len(values)] - values[1], 1000000)

EnoughSamples(track) == Len(track.values) >= 2

\* sum(d.values()) of a dict of rationals.
RECURSIVE DictSum(_)
DictSum(d) == IF d = <<>> THEN RatInt(0) ELSE RatAdd(d[1].value, DictSum(Tail(d)))

\* The sum of the window energies of the tracks that have two samples.
RECURSIVE TracksSum(_)
TracksSum(tracks) ==
    IF tracks = <<>>
    THEN RatInt(0)
    ELSE RatAdd(IF EnoughSamples(tracks[1]) THEN WindowJoules(tracks[1].values)
                ELSE RatInt(0),
                TracksSum(Tail(tracks)))

ExampleTracks == << [name |-> "power.rail.A", values |-> <<100, 100, 350>>],
                    [name |-> "power.rail.B", values |-> <<5>>] >>

\* C5: in every report, each rail with at least 2 samples has
\* by_rail = (last - first) x 1e-6 J whatever lies between, and each rail
\* with 0 or 1 sample is absent; by_rail has no other keys.  For rails
\* A = [100,100,350], B = [5]: by_rail = {A: 0.00025}, total = 0.00025.
C5_ByRailIsLastMinusFirst ==
    /\ (EnergyRan /\ power_tracks # <<>>) => EnergyReported
    /\ EnergyReported =>
          /\ \A i \in 1..Len(power_tracks) :
                LET t == power_tracks[i]
                IN  IF EnoughSamples(t)
                    THEN /\ DictHas(power_rails_energy.by_rail, t.name)
                         /\ DictGet(power_rails_energy.by_rail, t.name)
                                = WindowJoules(t.values)
                    ELSE ~DictHas(power_rails_energy.by_rail, t.name)
          /\ DictKeys(power_rails_energy.by_rail)
                 \subseteq {power_tracks[i].name : i \in 1..Len(power_tracks)}
          /\ Len(power_rails_energy.by_rail)
                 = Cardinality(DictKeys(power_rails_energy.by_rail))
    /\ (EnergyRan /\ power_tracks = ExampleTracks) =>
          /\ power_rails_energy.by_rail
                 = << [key |-> "power.rail.A", value |-> <<1, 4000>>] >>
          /\ power_rails_energy.total = <<1, 4000>>

\* C5 witness: the report of the example trace (A with a flat first step
\* and B with a single sample).
C5_Witness ==
    /\ EnergyReported
    /\ power_tracks = ExampleTracks
    /\ DictKeys(power_rails_energy.by_rail) = {"power.rail.A"}

\* C6: the total of a report is the sum of the values of its by_rail, which
\* is the sum of the window energies of the rails with at least 2 samples
\* (the others contribute 0).
C6_TotalIsSumOfByRail ==
    EnergyReported =>
        /\ power_rails_energy.total = DictSum(power_rails_energy.by_rail)
        /\ power_rails_energy.total = TracksSum(power_tracks)

\* C6 witness: a report over two rails that both contribute, and whose
\* total differs from either contribution.
C6_Witness ==
    /\ EnergyReported
    /\ Len(power_rails_energy.by_rail) = 2
    /\ \A i \in 1..2 :
          /\ ~RatIsZero(power_rails_energy.by_rail[i].value)
          /\ power_rails_energy.by_rail[i].value # power_rails_energy.total

NoRailHasTwoSamples == \A i \in 1..Len(power_tracks) : ~EnoughSamples(power_tracks[i])

EmptyReport == [type |-> "energy", total |-> RatInt(0), by_rail |-> <<>>]

\* C7 as stated: whenever no rail has 2 samples, no rails at all included,
\* the calculation returns {total: 0, by_rail: {}}.
C7_Original_EmptyReportEvenWithoutRails ==
    (EnergyRan /\ NoRailHasTwoSamples) => power_rails_energy = EmptyReport

\* C7 amended: when the trace has at least one rail and no rail has 2
\* samples, the calculation returns {total: 0, by_rail: {}}; when the trace
\* has no rails at all it returns None.
C7_EmptyReportUnlessNoRails ==
    (EnergyRan /\ NoRailHasTwoSamples) =>
        IF power_tracks = <<>>
        THEN power_rails_energy = None
        ELSE power_rails_energy = EmptyReport

\* C7 witness: a trace whose two rails have one and zero samples gave the
\* empty report.
C7_Witness ==
    /\ EnergyRan
    /\ Len(power_tracks) = 2
    /\ Len(power_tracks[1].values) = 1
    /\ Len(power_tracks[2].values) = 0
    /\ power_rails_energy = EmptyReport

Decreasing(track) ==
    EnoughSamples(track) /\ track.values[Len(track.values)] < track.values[1]

\* C8: a rail whose last sample is below its first is reported in by_rail
\* with the negative difference, and the total carries it unchanged: when
\* every contributing rail decreases the total is negative too.
C8_NegativeEnergyPropagates ==
    (EnergyRan /\ \E i \in 1..Len(power_tracks) : Decreasing(power_tracks[i])) =>
        /\ EnergyReported
        /\ \A i \in 1..Len(power_tracks) :
              Decreasing(power_tracks[i]) =>
                 LET e == DictGet(power_rails_energy.by_rail, power_tracks[i].name)
                 IN  /\ DictHas(power_rails_energy.by_rail, power_tracks[i].name)
                     /\ RatLt(e, RatInt(0))
                     /\ e = RatMul(RatInt(power_tracks[i].values[Len(power_tracks[i].values)]
                                          - power_tracks[i].values[1]),
                                   Rat(1, 1000000))
        /\ (\A i \in 1..Len(power_tracks) :
               EnoughSamples(power_tracks[i]) => Decreasing(power_tracks[i]))
              => RatLt(power_rails_energy.total, RatInt(0))
        /\ power_rails_energy.total = DictSum(power_rails_energy.by_rail)

\* C8 witness: rail A rose by 250 uWs and rail B fell by 345 uWs; B is
\* reported negative and the total is negative.
C8_Witness ==
    /\ EnergyReported
    /\ power_tracks = << [name |-> "power.rail.A", values |-> <<100, 350>>],
                         [name |-> "power.rail.B", values |-> <<350, 100, 5>>] >>
    /\ DictGet(power_rails_energy.by_rail, "power.rail.B") = Rat(-345, 1000000)
    /\ power_rails_energy.total = Rat(-95, 1000000)

(***************************************************************************)
(* Properties of calculate_memory_stats (SpecMemory)                       *)
(***************************************************************************)
\* The aggregation returned a mapping (not None).
MemoryReported ==
    /\ memory_stats # Unset
    /\ trace_status = "ok"
    /\ memory_stats.type = "memory"

\* value / (1024 * 1024) of every sample.
InMB(values) == [j \in 1..Len(values) |-> Rat(values[j], 1024 * 1024)]

RECURSIVE RatSeqSum(_)
RatSeqSum(s) == IF s = <<>> THEN RatInt(0) ELSE RatAdd(s[1], RatSeqSum(Tail(s)))

\* x is the least (greatest) element of the non-empty sequence s.
IsMinOf(x, s) ==
    /\ \E j \in 1..Len(s) : s[j] = x
    /\ \A j \in 1..Len(s) : RatLeq(x, s[j])

IsMaxOf(x, s) ==
    /\ \E j \in 1..Len(s) : s[j] = x
    /\ \A j \in 1..Len(s) : RatLeq(s[j], x)

MeanOf(s) == RatDiv(RatSeqSum(s), RatInt(Len(s)))

\* C9: every counter of the result has min_mb <= avg_mb <= max_mb, samples
\* equal to its number of samples (>= 1), and min/avg/max equal to the
\* min/mean/max of value/(1024*1024); the result holds exactly the counters
\* that have a sample, so a counter without samples never appears.
C9_MemoryStatsPerCounter ==
    MemoryReported =>
        /\ DictKeys(memory_stats.counters)
               = {mem_tracks[i].name :
                     i \in {j \in 1..Len(mem_tracks) : Len(mem_tracks[j].values) > 0}}
        /\ Len(memory_stats.counters) = Cardinality(DictKeys(memory_stats.counters))
        /\ \A i \in 1..Len(mem_tracks) :
              DictHas(memory_stats.counters, mem_tracks[i].name) =>
                 LET st == DictGet(memory_stats.counters, mem_tracks[i].name)
                     mb == InMB(mem_tracks[i].values)
                 IN  /\ RatLeq(st.min_mb, st.avg_mb)
                     /\ RatLeq(st.avg_mb, st.max_mb)
                     /\ st.samples = Len(mem_tracks[i].values)
                     /\ st.samples >= 1
                     /\ IsMinOf(st.min_mb, mb)
                     /\ IsMaxOf(st.max_mb, mb)
                     /\ st.avg_mb = MeanOf(mb)

\* C9 witness: MemAvailable has no samples and is left out; MemTotal has
\* three distinct samples, so min < avg < max strictly and the mean is not
\* a whole number of bytes.
C9_Witness ==
    /\ MemoryReported
    /\ mem_tracks = << [name |-> "MemAvailable", values |-> <<>>],
                       [name |-> "MemTotal",
                        values |-> <<524288, 3145728, 1048576>>] >>
    /\ DictKeys(memory_stats.counters) = {"MemTotal"}
    /\ LET st == DictGet(memory_stats.counters, "MemTotal")
       IN  /\ RatLt(st.min_mb, st.avg_mb)
           /\ RatLt(st.avg_mb, st.max_mb)
           /\ st.samples = 3

(***************************************************************************)
(* Properties of BatteryDrainCalculator (SpecBattery)                      *)
(***************************************************************************)
\* calculate_battery_drain has just returned a report.
DrainReported == last_op = "calculate_battery_drain" /\ ~IsNone(ret)

\* The specification's lookup: {2: 1.0, 3: 0.8, 4: 0.5, other: 0.9}.
TableMultiplier(code) ==
    CASE code = 2 -> <<1, 1>>
      [] code = 3 -> <<4, 5>>
      [] code = 4 -> <<1, 2>>
      [] OTHER    -> <<9, 10>>

\* C10: the cached health multiplier is 1.0 for health code 2, 0.8 for 3,
\* 0.5 for 4 and 0.9 for every other code, and a drain report's effective
\* capacity is capacity_mah times that multiplier.
C10_HealthMultiplierTable ==
    /\ ~IsNone(properties) =>
          properties["health_multiplier"] = TableMultiplier(properties["health_code"])
    /\ DrainReported =>
          /\ ret["health_multiplier"] = TableMultiplier(properties["health_code"])
          /\ ret["design_capacity_mah"] = properties["capacity_mah"]
          /\ ret["effective_capacity_mah"]
                 = RatMul(properties["capacity_mah"],
                          TableMultiplier(properties["health_code"]))

\* C10 witness: a battery of 3000 mAh reporting the unlisted health code 7
\* gave a report with multiplier 0.9 and effective capacity 2700 mAh.
C10_Witness ==
    /\ DrainReported
    /\ properties["health_code"] = 7
    /\ properties["capacity_mah"] = RatInt(3000)
    /\ ret["health_multiplier"] = <<9, 10>>
    /\ ret["effective_capacity_mah"] = RatInt(2700)

\* calculate_battery_drain was the last call to return.
DrainReturned == last_op = "calculate_battery_drain"

\* A required field is missing from the text the device printed.
MissingRequired(output) ==
    \/ FindAll("voltage", output) = <<>>
    \/ FindAll("health", output) = <<>>
    \/ /\ FindAll("harge counter", output) = <<>>
       /\ FindAll("battery capacity", output) = <<>>

\* capacity x multiplier x voltage is zero (no multiplier is zero).
TotalEnergyIsZero(props) ==
    props["capacity_mah"][1] = 0 \/ props["voltage_mv"] = 0

IsDrainReport(r) == ~IsNone(r) /\ "battery_drain_percentage" \in DOMAIN r

\* The fetch yields no properties exactly when the query fails or a
\* required field is missing, for everything the device can print.
FetchFailsIffRequiredMissing ==
    \A res \in ExitCodes, output \in DumpsysOutputs :
        IsNone(BatteryProperties(res, output)) <=> (res # 0 \/ MissingRequired(output))

\* C11: the fetch yields no properties exactly when the device query fails
\* or voltage, capacity or health code is missing from its output, and
\* calculate_battery_drain then returns None; with all three present (the
\* properties cached) and a non-zero total battery energy it returns a
\* report.
C11_NotAvailableIffRequiredMissing ==
    /\ FetchFailsIffRequiredMissing
    /\ ~IsNone(properties) => RequiredKeys \subseteq DOMAIN properties
    /\ (DrainReturned /\ IsNone(properties)) => (fetched /\ IsNone(ret))
    /\ (DrainReturned /\ ~IsNone(properties) /\ ~TotalEnergyIsZero(properties)) =>
          IsDrainReport(ret)

\* C11 witness: the first drain calculation queried the device, got no
\* usable properties and returned None.
C11_Witness ==
    /\ DrainReturned /\ fetched /\ queries = 1
    /\ IsNone(properties)
    /\ IsNone(ret)

\* The failure outcome of its own that the error taxonomy names.
DivisionByZeroFailure == [type |-> "DivisionByZero"]

ZeroEnergyDrain ==
    DrainReturned /\ ~IsNone(properties) /\ TotalEnergyIsZero(properties)

\* C12 as stated: with all properties present and a total battery energy
\* of 0 the call ends in a DivisionByZero failure that is not the
\* not-available outcome.
C12_Original_ZeroEnergyIsOwnFailure ==
    ZeroEnergyDrain => (ret = DivisionByZeroFailure /\ ~IsNone(ret))

\* C12 amended: with all properties present and a total battery energy of
\* 0 the call returns None, the same not-available outcome as for missing
\* properties; no report ever carries a zero total battery energy.
C12_ZeroEnergyReturnsNone ==
    /\ ZeroEnergyDrain => IsNone(ret)
    /\ (DrainReturned /\ IsDrainReport(ret)) =>
          ~RatIsZero(ret["total_battery_energy_wh"])

\* C12 witness: a battery reporting 0 mV with a capacity of 3000 mAh, and
\* the drain calculation returned None.
C12_Witness ==
    /\ ZeroEnergyDrain
    /\ properties["voltage_mv"] = 0
    /\ properties["capacity_mah"] = RatInt(3000)
    /\ IsNone(ret)

\* C13 as stated: the device battery query is issued at most once over any
\* sequence of calls.
C13_Original_AtMostOneQuery == queries <= 1

\* C13 amended: calculate_battery_drain queries the device exactly when no
\* properties are cached; once a fetch has succeeded it issues no query,
\* leaves the cache alone and computes from it.  get_battery_properties
\* queries the device on every call.
C13_DrainFetchesOnlyWithoutCache ==
    [][ /\ last_op' = "get_battery_properties" =>
              (queries' = queries + 1 /\ fetched')
        /\ last_op' = "calculate_battery_drain" =>
              IF IsNone(properties)
              THEN queries' = queries + 1 /\ fetched'
              ELSE /\ queries' = queries
                   /\ properties' = properties
                   /\ ~fetched'
                   /\ \E e \in Energies : ret' = DrainReport(properties, e)
      ]_vars

\* C13 witness: one query so far, and the drain calculation that returned
\* last computed its report without asking the device.
C13_Witness ==
    /\ DrainReturned /\ ~fetched
    /\ queries = 1
    /\ IsDrainReport(ret)

\* C15: every drain report satisfies effective = capacity x multiplier,
\* volts = mV / 1000, total Wh = effective x volts / 1000, consumed Wh =
\* J / 3600, drain % = consumed / total x 100, and echoes the energy it was
\* given.  3000 mAh, health 2, 3800 mV, 18000 J: 11.4 Wh, 5 Wh, 43.86 %.
C15_DrainReportFormulas ==
    (DrainReturned /\ IsDrainReport(ret)) =>
        LET j == ret["consumed_energy_joules"]
        IN  /\ ret["design_capacity_mah"] = properties["capacity_mah"]
            /\ ret["health_multiplier"] = properties["health_multiplier"]
            /\ ret["effective_capacity_mah"]
                   = RatMul(properties["capacity_mah"], properties["health_multiplier"])
            /\ ret["current_voltage_v"] = Rat(properties["voltage_mv"], 1000)
            /\ ret["total_battery_energy_wh"]
                   = RatDiv(RatMul(ret["effective_capacity_mah"], ret["current_voltage_v"]),
                            RatInt(1000))
            /\ ret["consumed_energy_wh"] = RatDiv(j, RatInt(3600))
            /\ RatMul(ret["battery_drain_percentage"], ret["total_battery_energy_wh"])
                   = RatMul(ret["consumed_energy_wh"], RatInt(100))
            /\ j \in Energies
            /\ \A e \in Energies :
                  DrainReport(properties, e)["consumed_energy_joules"] = e
            /\ ( /\ properties["capacity_mah"] = RatInt(3000)
                 /\ properties["health_code"] = 2
                 /\ properties["voltage_mv"] = 3800
                 /\ j = RatInt(18000) ) =>
                   /\ ret["health_multiplier"] = <<1, 1>>
                   /\ ret["effective_capacity_mah"] = <<3000, 1>>
                   /\ ret["total_battery_energy_wh"] = <<57, 5>>
                   /\ ret["consumed_energy_wh"] = <<5, 1>>
                   /\ ret["battery_drain_percentage"] = <<2500, 57>>
                   /\ RatLt(Rat(4385, 100), ret["battery_drain_percentage"])
                   /\ RatLt(ret["battery_drain_percentage"], Rat(4387, 100))

\* C15 witness: the report for 18000 J on the 3000 mAh, 3800 mV battery in
\* good health.
C15_Witness ==
    /\ DrainReturned /\ IsDrainReport(ret)
    /\ properties["capacity_mah"] = RatInt(3000)
    /\ properties["health_code"] = 2
    /\ properties["voltage_mv"] = 3800
    /\ ret["consumed_energy_joules"] = RatInt(18000)
    /\ ret["battery_drain_percentage"] = <<2500, 57>>

\* The capacity the device output stands for: the last charge counter
\* over 1000 if there is one, else the first alternate capacity as it is.
ExpectedCapacity(output) ==
    LET cc == FindAll("harge counter", output)
        ac == FindAll("battery capacity", output)
    IN  IF cc # <<>> THEN {Rat(cc[Len(cc)], 1000)}
        ELSE IF ac # <<>> THEN {RatInt(ac[1])}
        ELSE {}

\* What the capacity step leaves in the dict, for everything the device
\* can print.
ParsedCapacityIsExpected ==
    \A output \in DumpsysOutputs :
        LET parsed == ParseCapacity(output, ParseLoop(output, 1, EmptyDict))
        IN  IF ExpectedCapacity(output) = {}
            THEN "capacity_mah" \notin DOMAIN parsed
            ELSE /\ "capacity_mah" \in DOMAIN parsed
                 /\ parsed["capacity_mah"] \in ExpectedCapacity(output)

\* The properties a successful query caches, per device output.
FetchOf == [output \in DumpsysOutputs |-> BatteryProperties(0, output)]

SuccessfulOutputs == {output \in DumpsysOutputs : ~IsNone(FetchOf[output])}

\* C16: capacity_mah is the charge counter / 1000 whenever the device
\* prints a charge counter (the alternate field is then ignored), the
\* alternate field unscaled exactly when there is no charge counter, and
\* absent when both are missing.
C16_CapacitySource ==
    /\ ParsedCapacityIsExpected
    /\ ~IsNone(properties) =>
          \E output \in SuccessfulOutputs :
              /\ properties["capacity_mah"] \in ExpectedCapacity(output)
              /\ properties = FetchOf[output]

\* C16 witness: the cached capacity is the alternate field's 4000 mAh,
\* unscaled.
C16_Witness ==
    /\ ~IsNone(properties)
    /\ properties["capacity_mah"] = RatInt(4000)
    /\ last_op = "get_battery_properties"
    /\ ret = properties


(***************************************************************************)
(* Failure paths of create_perfetto_service (SpecFactory)                  *)
(***************************************************************************)
\* C18: a resolver error (the ValueError of the enhanced constructor) is
\* raised before any device interaction: no device command or probe has
\* been issued by the call that raises it.
C18_Original_ErrorBeforeDeviceInteraction ==
    raised = "ValueError" => device_calls = <<>>

\* C20: the call raises ValueError when enable_energy and enable_memory are
\* both true, and raises an exception without returning a service when
\* Perfetto is not available on the device.
C20_Original_BothRequestedRaisesValueError ==
    /\ (Called /\ has_perfetto /\ call.enable_energy /\ call.enable_memory) =>
          /\ raised = "ValueError"
          /\ service = NoService
    /\ (Called /\ ~has_perfetto) =>
          /\ raised = "Exception"
          /\ service = NoService


(***************************************************************************)
(* Properties of the displayed memory section (SpecMemory)                 *)
(***************************************************************************)
\* The samples of the counter `name` in the trace (none when it is absent).
SamplesOf(name) ==
    IF \E i \in 1..Len(mem_tracks) : mem_tracks[i].name = name
    THEN mem_tracks[CHOOSE i \in 1..Len(mem_tracks) : mem_tracks[i].name = name].values
    ELSE <<>>

BothCountersPresent ==
    /\ Len(SamplesOf("MemTotal")) > 0
    /\ Len(SamplesOf("MemAvailable")) > 0

\* C17: the displayed bounds are used_min = MemTotal.avg - MemAvailable.max,
\* used_avg = MemTotal.avg - MemAvailable.avg and used_max = MemTotal.avg -
\* MemAvailable.min, shown only when both counters are present (a memory
\* section printed without them carries no Memory Used line), and
\* used_min <= used_avg <= used_max.
C17_MemoryUsedInvertedPairing ==
    memory_used # Unset =>
        /\ memory_used.shown = "Memory Used" =>
              LET total_avg == MeanOf(InMB(SamplesOf("MemTotal")))
                  avail     == InMB(SamplesOf("MemAvailable"))
              IN  /\ profile_mode \in {"memory", "both"}
                  /\ trace_status = "ok"
                  /\ BothCountersPresent
                  /\ IsMaxOf(RatSub(total_avg, memory_used.used_min), avail)
                  /\ memory_used.used_avg = RatSub(total_avg, MeanOf(avail))
                  /\ IsMinOf(RatSub(total_avg, memory_used.used_max), avail)
                  /\ RatLeq(memory_used.used_min, memory_used.used_avg)
                  /\ RatLeq(memory_used.used_avg, memory_used.used_max)
        /\ memory_used.shown = "statistics" => ~BothCountersPresent

\* MemTotal 3 MB and MemAvailable 0.5 and 1 MB: used 2, 2.25 and 2.5 MB.
C17_Witness ==
    /\ mem_tracks = << [name |-> "MemAvailable", values |-> <<524288, 1048576>>],
                       [name |-> "MemTotal", values |-> <<3145728>>] >>
    /\ memory_used = [shown    |-> "Memory Used",
                      used_min |-> RatInt(2),
                      used_avg |-> Rat(9, 4),
                      used_max |-> Rat(5, 2)]


(***************************************************************************)
(* Concurrent callers of calculate_battery_drain (SpecThreads)             *)
(***************************************************************************)
\* What one caller returns when it works from the fetch result sh alone.
SingleFetchResult(sh, energy_joules) ==
    LET p == BatteryProperties(sh.res, sh.output)
    IN  IF IsNone(p) THEN None ELSE DrainReport(p, energy_joules)

\* C14: with threads calling calculate_battery_drain concurrently on one
\* calculator without cached properties, at most one device query is issued
\* in every interleaving and every caller's result is computed from that
\* single fetch result.
C14_Original_SingleFlight ==
    /\ queries <= 1
    /\ \E sh \in ThreadShellResults :
          \A t \in Threads :
              pc[t] = "done" =>
                  local[t].result = SingleFetchResult(sh, local[t].energy_joules)


(***************************************************************************)
(* The aggregate result object of main() (SpecSession)                     *)
(***************************************************************************)
Reported == results # Unset

\* C19: the result object carries an 'energy', 'memory' or 'battery_drain'
\* subsection exactly when that report was computed, never one whose value
\* is None, and it is exported only when energy or memory is present.
C19_Original_SubsectionsAreComputedReports ==
    Reported =>
        /\ \A k \in {"energy", "memory", "battery_drain"} :
              k \in DOMAIN results => ~IsNone(results[k])
        /\ exported # "no" =>
              \/ "energy" \in DOMAIN results /\ ~IsNone(results["energy"])
              \/ "memory" \in DOMAIN results /\ ~IsNone(results["memory"])


(***************************************************************************)
(* The rails probe within one resolution (SpecFactory)                     *)
(***************************************************************************)
\* C21: during one create_perfetto_service call the rails probe is asked at
\* most once, so with energy and memory both requested (no force flag) the
\* result is the combined strategy or the memory-only strategy, never
\* energy-only.
C21_Original_ProbeAskedOnce ==
    Called =>
        /\ Len(probes) <= 1
        /\ ( /\ has_perfetto /\ ~call.force_legacy /\ ~call.force_enhanced
             /\ call.enable_energy /\ call.enable_memory )
               => Strategy(service) \in {"EnhancedBoth", "EnhancedMemory"}


(***************************************************************************)
(* The top-consumers ranking (SpecRanking)                                 *)
(***************************************************************************)
\* Position of rail k in the dict d.
DictIndex(d, k) == CHOOSE i \in 1..Len(d) : d[i].key = k

\* ranking is a top-5 of the dict by_rail: at most 5 (all when there are
\* fewer) distinct items of by_rail, non-increasing in energy, none smaller
\* than an unlisted rail, equal energies in the order of by_rail.
IsTopRanking(ranking, by_rail) ==
    LET listed == {ranking[k].key : k \in 1..Len(ranking)}
    IN  /\ Len(ranking) <= 5
        /\ Len(ranking) = IF Len(by_rail) < 5 THEN Len(by_rail) ELSE 5
        /\ Cardinality(listed) = Len(ranking)
        /\ \A k \in 1..Len(ranking) :
              /\ DictHas(by_rail, ranking[k].key)
              /\ DictGet(by_rail, ranking[k].key) = ranking[k].value
        /\ \A k \in 1..(Len(ranking) - 1) :
              RatLeq(ranking[k + 1].value, ranking[k].value)
        /\ \A k \in 1..Len(ranking), i \in 1..Len(by_rail) :
              by_rail[i].key \notin listed =>
                  RatLeq(by_rail[i].value, ranking[k].value)
        /\ \A k1, k2 \in 1..Len(ranking) :
              (k1 < k2 /\ ranking[k1].value = ranking[k2].value) =>
                  DictIndex(by_rail, ranking[k1].key) < DictIndex(by_rail, ranking[k2].key)

\* C22: the ranking the energy calculation logs and the one the display
\* prints list at most 5 rails of by_rail in non-increasing order of energy,
\* every listed rail has at least the energy of every unlisted rail, and
\* rails of equal energy keep their rail-name (insertion) order.
C22_TopConsumersRanking ==
    /\ sorted_rails # Unset =>
          IsTopRanking(sorted_rails.rails, power_rails_energy.by_rail)
    /\ (shown_rails # Unset /\ shown_rails.shown = "Top Power Rail Consumers") =>
          IsTopRanking(shown_rails.rails, power_rails_energy.by_rail)

\* Six rails with windows 1, 2, 1, 2, 1, 1 J: B, D, A, C, E are listed in
\* that order and F is not.
C22_Witness ==
    /\ sorted_rails # Unset
    /\ Len(power_rails_energy.by_rail) = 6
    /\ [k \in 1..Len(sorted_rails.rails) |-> sorted_rails.rails[k].key]
          = <<"power.rail.B", "power.rail.D", "power.rail.A", "power.rail.C",
              "power.rail.E">>
    /\ shown_rails # Unset
    /\ shown_rails.shown = "Top Power Rail Consumers"
    /\ shown_rails.rails = sorted_rails.rails


(***************************************************************************)
(* The cache of a BatteryDrainCalculator (SpecBattery)                     *)
(***************************************************************************)
\* The calculator holds successfully fetched properties.
Cached == ~IsNone(properties)

\* C23: once properties are cached, a get_battery_properties call that
\* fails returns None and leaves them unchanged, calculate_battery_drain
\* never modifies them, and a drain calculation repeated with the same
\* energy returns the identical report, whose temperature_c is the cached
\* one: the device's deci-degrees divided by 10 once.
C23_CacheSurvivesFailedFetch ==
    [][ Cached =>
          /\ (last_op' = "get_battery_properties" /\ IsNone(ret')) =>
                properties' = properties
          /\ last_op' = "calculate_battery_drain" =>
                /\ properties' = properties
                /\ ( /\ last_op = "calculate_battery_drain"
                     /\ IsDrainReport(ret) /\ IsDrainReport(ret')
                     /\ ret'["consumed_energy_joules"] = ret["consumed_energy_joules"] )
                       => ret' = ret
                /\ IsDrainReport(ret') =>
                      /\ ("temperature_c" \in DOMAIN ret')
                            <=> ("temperature_c" \in DOMAIN properties)
                      /\ "temperature_c" \in DOMAIN ret' =>
                            /\ ret'["temperature_c"] = properties["temperature_c"]
                            /\ \E t \in TemperatureLines \ {<<>>} :
                                  ret'["temperature_c"] = Rat(t[1].value, 10)
      ]_vars

\* C23 witness: with properties (temperature included) cached by an earlier
\* query, a second query has just failed and the cache is still there.
C23_Witness ==
    /\ last_op = "get_battery_properties"
    /\ IsNone(ret)
    /\ Cached
    /\ "temperature_c" \in DOMAIN properties
    /\ queries = 2


(***************************************************************************)
(* The battery-drain subsection of the result object (SpecSession)         *)
(***************************************************************************)
\* The session has an energy report.
HasEnergyReport == power_rails_energy # Unset /\ ~IsNone(power_rails_energy)

\* C24: the result object of an enhanced session has a 'battery_drain'
\* subsection only if the mode is energy or both, an energy report exists
\* and its total is > 0 (the drain being that of this total); with a zero
\* or negative total, as with no report or in memory mode, there is no such
\* subsection and no device battery query was issued.
C24_DrainOnlyForPositiveEnergy ==
    Reported =>
        /\ "battery_drain" \in DOMAIN results =>
              /\ profile_mode \in {"energy", "both"}
              /\ HasEnergyReport
              /\ RatLt(RatInt(0), power_rails_energy.total)
              /\ IsDrainReport(results["battery_drain"])
              /\ results["battery_drain"]["consumed_energy_joules"]
                     = power_rails_energy.total
              /\ queries = 1
        /\ ( \/ profile_mode = "memory"
             \/ ~HasEnergyReport
             \/ RatLeq(power_rails_energy.total, RatInt(0)) )
               => /\ "battery_drain" \notin DOMAIN results
                  /\ queries = 0
                  /\ IsNone(properties)

\* C24 witness: an energy-mode session whose rail counter fell by 2 J was
\* reported with its energy section, without drain section or query.
C24_Witness ==
    /\ Reported
    /\ profile_mode = "energy"
    /\ HasEnergyReport
    /\ power_rails_energy.total = RatInt(-2)
    /\ "energy" \in DOMAIN results
    /\ "battery_drain" \notin DOMAIN results
    /\ queries = 0

====
